---- MODULE Spec2Model ----
(***************************************************************************)
(* A model of statxplorer.py: the transport layer (StatXplorer.__init__,   *)
(* request, fetch_table), the two recursive generators (field_looper,      *)
(* value_looper) and the cube decoder convert_to_dataframe.                *)
(*                                                                         *)
(* The specifications share the variables:                                 *)
(*   SpecRequest  the client object: __init__, request, fetch_table        *)
(*                (SpecRequestFair: a started call keeps executing);       *)
(*   SpecLooper   field_looper and value_looper applied to drawn inputs;   *)
(*   SpecConvert  convert_to_dataframe on responses without uris;          *)
(*   SpecCodes    convert_to_dataframe with include_codes on responses     *)
(*                whose items carry uris.                                  *)
(***************************************************************************)
EXTENDS Integers, Sequences, FiniteSets, TLC

VARIABLES
    \* ---- the client object and the call in progress
    constructed,    \* __init__ has completed without raising
    caller,         \* "none" | "__init__" | "fetch_table" | "request"
    pc,             \* position of the call in progress
    endpoint,       \* request's endpoint argument
    retries,        \* request's local counter
    statuses,       \* status codes of the HTTP attempts of this request call
    req,            \* status code of the response object bound to req (0: unbound)
    reqResult,      \* how request ended: "none" | "returned" | an exception
    exc,            \* the exception that left the outermost call ("none")
    decoded,        \* fetch_table called req.json()
    converted,      \* fetch_table called convert_to_dataframe
    returned,       \* fetch_table returned its results object
    \* ---- the generators
    call,           \* "field_looper" | "value_looper"
    field_names,    \* field_looper's first argument
    field_labels,   \* field_looper's second argument
    array,          \* value_looper's argument
    yielded,        \* what the generator produced when iterated to its end
    \* ---- convert_to_dataframe
    results,        \* the decoded response
    include_codes,
    reshape,
    conv            \* the outcome of the call

reqVars == <<constructed, caller, pc, endpoint, retries, statuses, req,
             reqResult, exc, decoded, converted, returned>>
loopVars == <<call, field_names, field_labels, array, yielded>>
convVars == <<results, include_codes, reshape, conv>>
vars == <<reqVars, loopVars, convVars>>

\* ------------------------------------------------------------------ bounds
MaxFields == 3      \* fields of a response / dimensions of an array
MaxItems == 2       \* items of a field / length of one array dimension
MaxMeasures == 2    \* measures of a response

\* --------------------------------------------------------------- helpers
RECURSIVE Prod(_)
Prod(s) == IF s = <<>> THEN 1 ELSE Head(s) * Prod(Tail(s))

\* the sequences of ss joined in order
RECURSIVE Concat(_)
Concat(ss) ==
    IF Len(ss) = 0 THEN <<>>
    ELSE IF Len(ss) = 1 THEN ss[1]
    ELSE LET h == Len(ss) \div 2
         IN  Concat(SubSeq(ss, 1, h)) \o Concat(SubSeq(ss, h + 1, Len(ss)))

Range(s) == {s[i] : i \in 1..Len(s)}

Min(a, b) == IF a < b THEN a ELSE b

\* ================================================================= request
ENDPOINTS == {"schema", "table", "info", "rate_limit"}
MAX_RETRIES == 5

\* status codes the server may answer with
Statuses == {200, 403, 500, 503, 504}
\* endpoint arguments a caller may pass to request
EndpointArgs == ENDPOINTS \cup {"tables"}

\* `while retries < MAX_RETRIES`
LoopCondOffByOne(r) == r <= MAX_RETRIES
LoopCond(r) == r < MAX_RETRIES

\* fetch_table's `if req.status_code != 200: raise`
StatusOkAnySuccess(s) == s # 503 /\ s # 504
StatusOk(s) == s = 200

IdleReq == pc \in {"idle", "done"}

\* A new outermost call starts with fresh locals.
StartCall(c, e) ==
    /\ caller' = c
    /\ endpoint' = e
    /\ retries' = 0
    /\ statuses' = <<>>
    /\ req' = 0
    /\ reqResult' = "none"
    /\ exc' = "none"
    /\ decoded' = FALSE
    /\ converted' = FALSE
    /\ returned' = FALSE

\* request's first statement: the endpoint check, then url and retries = 0.
EnterRequest(e) ==
    IF e \in ENDPOINTS
    THEN /\ pc' = "loop"
    ELSE /\ pc' = "raise"

\* StatXplorer(key): the constructor calls self.request("info").
Construct ==
    /\ IdleReq
    /\ StartCall("__init__", "info")
    /\ EnterRequest("info")
    /\ constructed' = FALSE
    /\ UNCHANGED <<loopVars, convVars>>

\* fetch_table(query, ...): the payload is taken from the query, then
\* self.request("table", payload) is called.
FetchTable ==
    /\ IdleReq
    /\ constructed
    /\ StartCall("fetch_table", "table")
    /\ EnterRequest("table")
    /\ UNCHANGED <<constructed, loopVars, convVars>>

\* A direct call of request(endpoint) by the user of the object.
CallRequest ==
    /\ IdleReq
    /\ constructed
    /\ \E e \in EndpointArgs :
        /\ StartCall("request", e)
        /\ EnterRequest(e)
    /\ UNCHANGED <<constructed, loopVars, convVars>>

\* `raise ValueError("Unrecognised endpoint")`
RequestValueError ==
    /\ pc = "raise"
    /\ reqResult' = "ValueError"
    /\ exc' = "ValueError"
    /\ pc' = "done"
    /\ UNCHANGED <<constructed, caller, endpoint, retries, statuses, req,
                   decoded, converted, returned, loopVars, convVars>>

\* One pass of the while loop: the HTTP attempt and the status dispatch.
RequestAttempt ==
    /\ pc = "loop"
    /\ LoopCond(retries)
    /\ \E s \in Statuses :
        /\ statuses' = Append(statuses, s)
        /\ req' = s
        /\ IF s = 503
           THEN /\ reqResult' = "ServiceUnavailableError"
                /\ exc' = "ServiceUnavailableError"
                /\ pc' = "done"
                /\ retries' = retries
           ELSE IF s = 504
           THEN /\ retries' = retries + 1
                /\ pc' = "loop"
                /\ UNCHANGED <<reqResult, exc>>
           ELSE /\ pc' = "after"
                /\ UNCHANGED <<retries, reqResult, exc>>
    /\ UNCHANGED <<constructed, caller, endpoint, decoded, converted,
                   returned, loopVars, convVars>>

\* The loop condition fails: control reaches the statement after the loop.
RequestLoopExit ==
    /\ pc = "loop"
    /\ ~LoopCond(retries)
    /\ pc' = "after"
    /\ UNCHANGED <<constructed, caller, endpoint, retries, statuses, req,
                   reqResult, exc, decoded, converted, returned,
                   loopVars, convVars>>

\* `if retries == MAX_RETRIES: raise TimeoutError`, else `return req`.
RequestFinish ==
    /\ pc = "after"
    /\ IF retries = MAX_RETRIES
       THEN /\ reqResult' = "TimeoutError"
            /\ exc' = "TimeoutError"
            /\ pc' = "done"
       ELSE /\ reqResult' = "returned"
            /\ exc' = "none"
            /\ pc' = IF caller = "request" THEN "done" ELSE "caller"
    /\ UNCHANGED <<constructed, caller, endpoint, retries, statuses, req,
                   decoded, converted, returned, loopVars, convVars>>

\* __init__ after request returned: the sense check of the key.
ConstructCheck ==
    /\ pc = "caller"
    /\ caller = "__init__"
    /\ IF req # 200
       THEN /\ exc' = "AuthenticationError"
            /\ constructed' = FALSE
       ELSE /\ exc' = "none"
            /\ constructed' = TRUE
    /\ pc' = "done"
    /\ UNCHANGED <<caller, endpoint, retries, statuses, req, reqResult,
                   decoded, converted, returned, loopVars, convVars>>

\* fetch_table after request returned: the status check, then req.json(),
\* convert_to_dataframe and the return of the results object.
FetchCheck ==
    /\ pc = "caller"
    /\ caller = "fetch_table"
    /\ IF ~StatusOk(req)
       THEN /\ exc' = "RequestFailedError"
            /\ UNCHANGED <<decoded, converted, returned>>
       ELSE /\ decoded' = TRUE
            /\ converted' = TRUE
            \* convert_to_dataframe returns a table or raises
            /\ \E ok \in BOOLEAN :
                /\ returned' = ok
                /\ exc' = IF ok THEN "none" ELSE "ConvertError"
    /\ pc' = "done"
    /\ UNCHANGED <<constructed, caller, endpoint, retries, statuses, req,
                   reqResult, loopVars, convVars>>

\* ============================================================ the generators
\* An OrderedDict is a sequence of key/value entries in insertion order.
Entry(key, value) == [k |-> key, v |-> value]

Keys(d) == [i \in 1..Len(d) |-> d[i].k]

HasKey(d, key) == \E i \in 1..Len(d) : d[i].k = key

Get(d, key) == d[CHOOSE i \in 1..Len(d) : d[i].k = key].v

\* d[key] = value: an existing key keeps its place and takes the new value.
Put(d, key, value) ==
    IF HasKey(d, key)
    THEN [i \in 1..Len(d) |-> IF d[i].k = key THEN Entry(key, value) ELSE d[i]]
    ELSE Append(d, Entry(key, value))

\* d.update(other)
RECURSIVE Update(_, _)
Update(d, other) ==
    IF other = <<>> THEN d
    ELSE Update(Put(d, Head(other).k, Head(other).v), Tail(other))

\* The mappings field_looper yields, in order, for position-matched lists.
RECURSIVE FieldLoop(_, _)
FieldLoop(names, labels) ==
    IF Len(names) = 1
    THEN [i \in 1..Len(labels[1]) |-> <<Entry(names[1], labels[1][i])>>]
    ELSE LET lower == FieldLoop(Tail(names), Tail(labels))
         IN  Concat([i \in 1..Len(labels[1]) |->
                 [j \in 1..Len(lower) |->
                     Update(<<Entry(names[1], labels[1][i])>>, lower[j])]])

\* The same loops nested the other way round: the first field fastest.
RECURSIVE FieldLoopFirstFastest(_, _)
FieldLoopFirstFastest(names, labels) ==
    IF Len(names) = 1
    THEN [i \in 1..Len(labels[1]) |-> <<Entry(names[1], labels[1][i])>>]
    ELSE LET lower == FieldLoopFirstFastest(Tail(names), Tail(labels))
         IN  Concat([j \in 1..Len(lower) |->
                 [i \in 1..Len(labels[1]) |->
                     Update(<<Entry(names[1], labels[1][i])>>, lower[j])]])

field_looper_first_fastest(names, labels) ==
    IF Len(names) # Len(labels)
    THEN [exc |-> "AssertionError", out |-> <<>>]
    ELSE [exc |-> "none", out |-> FieldLoopFirstFastest(names, labels)]

\* field_looper(field_names, field_labels) iterated to its end: the exception
\* that ended it ("none") and what it yielded before.
field_looper(names, labels) ==
    IF Len(names) # Len(labels)
    THEN [exc |-> "AssertionError", out |-> <<>>]
    ELSE [exc |-> "none", out |-> FieldLoop(names, labels)]

\* A JSON value of a cube: a number or a list of values.
Scalar(n) == [isList |-> FALSE, items |-> <<>>, val |-> n]
List(xs) == [isList |-> TRUE, items |-> xs, val |-> 0]

\* value_looper's body on a list, and its loop over the child arrays.  The
\* result is the exception that ended the iteration ("none") and the values
\* yielded before it.
RECURSIVE ValueLoop(_)
RECURSIVE ChildLoop(_)
ValueLoop(a) ==
    IF ~a.isList
    THEN [exc |-> "TypeError", out |-> <<>>]       \* array[0] of a number
    ELSE IF Len(a.items) = 0
    THEN [exc |-> "IndexError", out |-> <<>>]      \* array[0] of an empty list
    ELSE IF a.items[1].isList
    THEN ChildLoop(a.items)
    ELSE [exc |-> "none", out |-> [i \in 1..Len(a.items) |-> a.items[i].val]]

ChildLoop(children) ==
    IF children = <<>> THEN [exc |-> "none", out |-> <<>>]
    ELSE LET h == ValueLoop(Head(children))
         IN  IF h.exc # "none" THEN h
             ELSE LET t == ChildLoop(Tail(children))
                  IN  [exc |-> t.exc, out |-> h.out \o t.out]

\* A traversal that walks every list back to front.
RECURSIVE ValueLoopReversed(_)
ValueLoopReversed(a) ==
    IF ~a.isList
    THEN [exc |-> "TypeError", out |-> <<>>]
    ELSE IF Len(a.items) = 0
    THEN [exc |-> "IndexError", out |-> <<>>]
    ELSE IF a.items[1].isList
    THEN LET n == Len(a.items)
             rs == [i \in 1..n |-> ValueLoopReversed(a.items[n + 1 - i])]
         IN  IF \E i \in 1..n : rs[i].exc # "none"
             THEN [exc |-> "IndexError", out |-> <<>>]
             ELSE [exc |-> "none", out |-> Concat([i \in 1..n |-> rs[i].out])]
    ELSE [exc |-> "none",
          out |-> [i \in 1..Len(a.items) |-> a.items[Len(a.items) + 1 - i].val]]

value_looper_reversed(a) == ValueLoopReversed(a)

\* value_looper(array) iterated to its end.
value_looper(a) == ValueLoop(a)

\* The regular nested array of the given shape whose leaves, in row-major
\* order, are start, start + 1, ...
RECURSIVE Nest(_, _)
Nest(shape, start) ==
    IF shape = <<>> THEN Scalar(start)
    ELSE List([i \in 1..Head(shape) |->
                  Nest(Tail(shape), start + (i - 1) * Prod(Tail(shape)))])

\* array[i_1][i_2]...: the element at a (1-based) multi-index.
RECURSIVE At(_, _)
At(a, idx) == IF idx = <<>> THEN a ELSE At(a.items[Head(idx)], Tail(idx))

\* The f-th (1-based) digit of the 0-based position k in the row-major
\* numbering of a shape, as a 1-based index.
Digit(k, f, shape) ==
    ((k \div Prod(SubSeq(shape, f + 1, Len(shape)))) % shape[f]) + 1

MultiIndex(k, shape) == [f \in 1..Len(shape) |-> Digit(k, f, shape)]

\* ---- the inputs SpecLooper draws
NamePool == <<"A", "B", "C", "D", "E">>
DistinctNames(n) == [i \in 1..n |-> NamePool[i]]
\* name lists of length n: pairwise distinct, or position p repeating the first
NameLists(n) ==
    {DistinctNames(n)} \cup
    {[DistinctNames(n) EXCEPT ![p] = NamePool[1]] : p \in 2..n}

Iota(n) == [i \in 1..n |-> i]
Rev(n) == [i \in 1..n |-> n + 1 - i]
Const(n) == [i \in 1..n |-> 1]
\* label lists of up to MaxItems labels: ascending, descending, or repeated
LabelLists == UNION {{Iota(n), Rev(n), Const(n)} : n \in 0..MaxItems}

SeqsOfLen(S, n) == [1..n -> S]
Shapes(n) == SeqsOfLen(0..MaxItems, n)

NoArray == List(<<>>)
NoYield == [done |-> FALSE, exc |-> "none", out |-> <<>>]

LooperInputs ==
    /\ yielded = NoYield
    /\ \/ /\ call = "field_looper"
          /\ \E n \in 1..MaxFields :
                /\ field_names \in NameLists(n)
                /\ \E m \in {n, n - 1} \cap (1..MaxFields) :
                      field_labels \in SeqsOfLen(LabelLists, m)
          /\ array = [shape |-> <<>>, values |-> NoArray]
       \/ /\ call = "value_looper"
          /\ field_names = <<>>
          /\ field_labels = <<>>
          /\ \E n \in 1..MaxFields : \E shape \in Shapes(n) :
                array = [shape |-> shape, values |-> Nest(shape, 0)]

CallFieldLooper ==
    /\ call = "field_looper"
    /\ ~yielded.done
    /\ LET r == field_looper(field_names, field_labels)
       IN  yielded' = [done |-> TRUE, exc |-> r.exc, out |-> r.out]
    /\ UNCHANGED <<call, field_names, field_labels, array, reqVars, convVars>>

CallValueLooper ==
    /\ call = "value_looper"
    /\ ~yielded.done
    /\ LET r == value_looper(array.values)
       IN  yielded' = [done |-> TRUE, exc |-> r.exc, out |-> r.out]
    /\ UNCHANGED <<call, field_names, field_labels, array, reqVars, convVars>>

\* ===================================================== convert_to_dataframe
\* Item labels are numbers whose order stands for the alphabetical order of
\* the label texts; uris and codes are sequences of characters.
Alpha ==
    {"a", "b", "c", "d", "e", "f", "g", "h", "i", "j", "k", "l", "m",
     "n", "o", "p", "q", "r", "s", "t", "u", "v", "w", "x", "y", "z",
     "A", "B", "C", "D", "E", "F", "G", "H", "I", "J", "K", "L", "M",
     "N", "O", "P", "Q", "R", "S", "T", "U", "V", "W", "X", "Y", "Z"}

\* str.isalpha() of one character
isalpha(c) == c \in Alpha

\* Position of the last colon of u, 0 when u holds none.
LastColon(u) ==
    IF \E i \in 1..Len(u) : u[i] = ":"
    THEN CHOOSE i \in 1..Len(u) :
            /\ u[i] = ":"
            /\ \A j \in (i + 1)..Len(u) : u[j] # ":"
    ELSE 0

\* u.rsplit(":", maxsplit=1): one part without a colon, else two.
rsplit(u) ==
    IF LastColon(u) = 0 THEN <<u>>
    ELSE <<SubSeq(u, 1, LastColon(u) - 1), SubSeq(u, LastColon(u) + 1, Len(u))>>

\* `len(code) == 9 and code[0].isalpha()`
IsOnsCode(code) == Len(code) = 9 /\ isalpha(code[1])

\* The body of the loop over one field's item, on the lookup built so far.
ExtractItem(field_codes, field_label, item) ==
    IF ~item.has_uris
    THEN [exc |-> "none", field_codes |-> field_codes]
    ELSE IF Len(item.uris) = 0
    THEN [exc |-> "IndexError", field_codes |-> field_codes]  \* item["uris"][0]
    ELSE IF Len(rsplit(item.uris[1])) < 2
    THEN [exc |-> "IndexError", field_codes |-> field_codes]  \* rsplit(...)[1]
    ELSE LET code == rsplit(item.uris[1])[2]
         IN  IF IsOnsCode(code)
             THEN LET inner == IF HasKey(field_codes, field_label)
                               THEN Get(field_codes, field_label) ELSE <<>>
                  IN  [exc |-> "none",
                       field_codes |->
                           Put(field_codes, field_label, Put(inner, item.label, code))]
             ELSE [exc |-> "none", field_codes |-> field_codes]

RECURSIVE ExtractLoop(_, _)
ExtractLoop(field_codes, todo) ==
    IF todo = <<>> THEN [exc |-> "none", field_codes |-> field_codes]
    ELSE LET r == ExtractItem(field_codes, Head(todo).field, Head(todo).item)
         IN  IF r.exc # "none" THEN r
             ELSE ExtractLoop(r.field_codes, Tail(todo))

\* The `if include_codes:` block: the CodeLookup, or the exception raised.
ExtractCodes(res) ==
    ExtractLoop(<<>>,
        Concat([f \in 1..Len(res.fields) |->
            [i \in 1..Len(res.fields[f].items) |->
                [field |-> res.fields[f].label, item |-> res.fields[f].items[i]]]]))

FieldNames(res) == [f \in 1..Len(res.fields) |-> res.fields[f].label]

FieldLabels(res) ==
    [f \in 1..Len(res.fields) |->
        [i \in 1..Len(res.fields[f].items) |-> res.fields[f].items[i].label]]

\* zip(field_looper(...), value_looper(...)) for one measure: the rows
\* appended to data, or the exception a generator raised while zip drew from it.
\* zip draws from the field generator first and stops when it is exhausted.
MeasureRows(res, measure) ==
    LET fl == field_looper(FieldNames(res), FieldLabels(res))
        vl == value_looper(res.cubes[measure.uri].values)
    IN  IF fl.exc # "none" THEN [exc |-> fl.exc, out |-> <<>>]
        ELSE IF vl.exc # "none" /\ Len(vl.out) < Len(fl.out)
        THEN [exc |-> vl.exc, out |-> <<>>]
        ELSE [exc |-> "none",
              out |-> [k \in 1..Min(Len(fl.out), Len(vl.out)) |->
                          Update(Update(<<>>, fl.out[k]),
                                 <<Entry(measure.label, vl.out[k])>>)]]

RECURSIVE MeasureLoop(_, _)
MeasureLoop(res, measures) ==
    IF measures = <<>> THEN [exc |-> "none", out |-> <<>>]
    ELSE LET h == MeasureRows(res, Head(measures))
         IN  IF h.exc # "none" THEN h
             ELSE LET t == MeasureLoop(res, Tail(measures))
                  IN  [exc |-> t.exc, out |-> h.out \o t.out]

\* The measures taken record by record instead of measure by measure.
BuildDataInterleaved(res) ==
    LET per == [j \in 1..Len(res.measures) |-> MeasureRows(res, res.measures[j])]
        n == Len(per[1].out)
    IN  IF \E j \in 1..Len(per) : per[j].exc # "none" \/ Len(per[j].out) # n
        THEN MeasureLoop(res, res.measures)
        ELSE [exc |-> "none",
              out |-> Concat([k \in 1..n |-> [j \in 1..Len(per) |-> per[j].out[k]]])]

\* The `for measure in results["measures"]` loop: the list `data`.
BuildData(res) == MeasureLoop(res, res.measures)

\* ---- tables
Num(v) == [nan |-> FALSE, val |-> v]
Missing == [nan |-> TRUE, val |-> 0]

\* values of an index level: a label, a code, or NaN
LabelCell(l) == [kind |-> "label", label |-> l, code |-> <<>>]
CodeCell(c) == [kind |-> "code", label |-> 0, code |-> c]
NaNCell == [kind |-> "nan", label |-> 0, code |-> <<>>]

\* name of an index level: the field's label, or the field's label + " code"
Level(name, isCode) == [field |-> name, code |-> isCode]

NoTable == [kind |-> "none", index_names |-> <<>>, index |-> <<>>,
            columns |-> <<>>, cells |-> <<>>]

\* the values of s in order of first appearance
Unique(s) ==
    LET firsts == SelectSeq([i \in 1..Len(s) |-> i],
                            LAMBDA i : \A j \in 1..(i - 1) : s[j] # s[i])
    IN  [k \in 1..Len(firsts) |-> s[firsts[k]]]

LexLeq(x, y) ==
    \/ x = y
    \/ \E i \in 1..Len(x) :
          /\ x[i] < y[i]
          /\ \A j \in 1..(i - 1) : x[j] = y[j]

\* the tuples of S in ascending lexicographic order
SortSet(S) ==
    [i \in 1..Cardinality(S) |->
        CHOOSE x \in S : Cardinality({y \in S : LexLeq(y, x)}) = i]

Cell(row, key) == IF HasKey(row, key) THEN Num(Get(row, key)) ELSE Missing

\* pd.DataFrame(data): one row per record, a column per key in order of
\* first appearance, NaN where a record has no such key.
DataFrame(data) ==
    LET cols == Unique(Concat([r \in 1..Len(data) |-> Keys(data[r])]))
    IN  [kind |-> "flat", index_names |-> <<>>, index |-> <<>>,
         columns |-> cols,
         cells |-> [r \in 1..Len(data) |->
                      [c \in 1..Len(cols) |-> Cell(data[r], cols[c])]]]

\* data_pd.set_index(name): the rows keep their order.
SetIndex(data, name) ==
    LET df == DataFrame(data)
        cols == SelectSeq(df.columns, LAMBDA c : c # name)
    IN  [kind |-> "indexed",
         index_names |-> <<Level(name, FALSE)>>,
         index |-> [r \in 1..Len(data) |-> <<LabelCell(Get(data[r], name))>>],
         columns |-> cols,
         cells |-> [r \in 1..Len(data) |->
                      [c \in 1..Len(cols) |-> Cell(data[r], cols[c])]]]

RECURSIVE Sum(_)
Sum(s) == IF s = <<>> THEN 0 ELSE Head(s) + Sum(Tail(s))

\* aggfunc="mean" over the values of one group (the groups of a response whose
\* labels are distinct within each field hold one value each)
Mean(vs) == IF vs = <<>> THEN Missing ELSE Num(Sum(vs) \div Len(vs))

RowKey(row, indices) == [i \in 1..Len(indices) |-> Get(row, indices[i])]

\* pd.pivot_table(data_pd, values=value, index=indices, columns=[column]) for
\* one value column: the observed row keys and column keys, both sorted.
PivotTable(data, value, indices, column) ==
    LET rows == SortSet({RowKey(data[r], indices) : r \in 1..Len(data)})
        cols == SortSet({<<Get(data[r], column)>> : r \in 1..Len(data)})
        group(rk, ck) ==
            SelectSeq(data, LAMBDA d :
                /\ RowKey(d, indices) = rk
                /\ Get(d, column) = ck
                /\ HasKey(d, value))
    IN  [kind |-> "pivot",
         index_names |-> [i \in 1..Len(indices) |-> Level(indices[i], FALSE)],
         index |-> [r \in 1..Len(rows) |->
                      [i \in 1..Len(indices) |-> LabelCell(rows[r][i])]],
         columns |-> [c \in 1..Len(cols) |-> cols[c][1]],
         cells |-> [r \in 1..Len(rows) |-> [c \in 1..Len(cols) |->
                      LET g == group(rows[r], cols[c][1])
                      IN  Mean([k \in 1..Len(g) |-> Get(g[k], value)])]]]

\* data_pd[column_labels]: the columns in the order of column_labels.
SelectColumns(table, column_labels) ==
    LET pos(l) == CHOOSE c \in 1..Len(table.columns) : table.columns[c] = l
    IN  [table EXCEPT
            !.columns = column_labels,
            !.cells = [r \in 1..Len(table.cells) |->
                          [c \in 1..Len(column_labels) |->
                              table.cells[r][pos(column_labels[c])]]]]

LookupCell(code_lookup, cell) ==
    IF cell.kind = "label" /\ HasKey(code_lookup, cell.label)
    THEN CodeCell(Get(code_lookup, cell.label))
    ELSE NaNCell

\* One pass of `for field_name, code_lookup in field_codes.items()`.
AttachCode(table, field_name, code_lookup) ==
    LET names == table.index_names
        fold(col) ==
            [table EXCEPT
                !.index_names = Append(names, Level(field_name, TRUE)),
                !.index = [r \in 1..Len(table.index) |->
                              Append(table.index[r], col[r])]]
    IN  IF Len(names) = 1
        THEN \* single-level index: the index values mapped through the lookup
             [exc |-> "none",
              table |-> fold([r \in 1..Len(table.index) |->
                                 LookupCell(code_lookup, table.index[r][1])])]
        ELSE IF ~\E i \in 1..Len(names) : names[i] = Level(field_name, FALSE)
        THEN \* data_pd.index.names.index(field_name)
             [exc |-> "ValueError", table |-> table]
        ELSE LET field_ix == CHOOSE i \in 1..Len(names) :
                                 names[i] = Level(field_name, FALSE)
             IN  [exc |-> "none",
                  table |-> fold([r \in 1..Len(table.index) |->
                                LookupCell(code_lookup, table.index[r][field_ix])])]

RECURSIVE AttachCodes(_, _)
AttachCodes(table, field_codes) ==
    IF field_codes = <<>> THEN [exc |-> "none", table |-> table]
    ELSE LET r == AttachCode(table, Head(field_codes).k, Head(field_codes).v)
         IN  IF r.exc # "none" THEN r
             ELSE AttachCodes(r.table, Tail(field_codes))

\* The statements after `data_pd = pd.DataFrame(data)`.
Reshape(res, codes, data, with_codes, do_reshape) ==
    LET names == FieldNames(res)
        raise(e) == [exc |-> e, table |-> NoTable]
    IN  IF ~do_reshape THEN [exc |-> "none", table |-> DataFrame(data)]
        ELSE IF Len(names) = 1
        THEN IF data = <<>> THEN raise("KeyError")   \* no column to index on
             ELSE [exc |-> "none", table |-> SetIndex(data, names[1])]
        ELSE IF data = <<>> THEN raise("KeyError")   \* data_pd[field_names[1]]
        ELSE IF Len(res.measures) > 1
        THEN \* the pivoted columns are (measure, label) pairs, and
             \* data_pd[column_labels] finds no such top-level column
             raise("KeyError")
        ELSE LET indices == <<names[1]>> \o SubSeq(names, 3, Len(names))
                 column_labels == Unique([r \in 1..Len(data) |-> Get(data[r], names[2])])
                 pivoted == PivotTable(data, res.measures[1].label, indices, names[2])
                 ordered == SelectColumns(pivoted, column_labels)
             IN  IF with_codes THEN AttachCodes(ordered, codes)
                 ELSE [exc |-> "none", table |-> ordered]

NoConv == [done |-> FALSE, exc |-> "none", stage |-> "none",
           field_codes |-> <<>>, data |-> <<>>, table |-> NoTable]

\* convert_to_dataframe(results, include_codes, reshape): what it returns or
\* raises, with the locals field_codes and data as they stood then.
convert_to_dataframe(res, with_codes, do_reshape) ==
    LET ex == IF with_codes THEN ExtractCodes(res)
              ELSE [exc |-> "none", field_codes |-> <<>>]
    IN  IF ex.exc # "none"
        THEN [done |-> TRUE, exc |-> ex.exc, stage |-> "codes",
              field_codes |-> ex.field_codes, data |-> <<>>, table |-> NoTable]
        ELSE LET built == BuildData(res)
             IN  IF built.exc # "none"
                 THEN [done |-> TRUE, exc |-> built.exc, stage |-> "records",
                       field_codes |-> ex.field_codes, data |-> <<>>,
                       table |-> NoTable]
                 ELSE LET shaped == Reshape(res, ex.field_codes, built.out,
                                            with_codes, do_reshape)
                      IN  [done |-> TRUE, exc |-> shaped.exc,
                           stage |-> IF shaped.exc = "none" THEN "returned"
                                     ELSE "reshape",
                           field_codes |-> ex.field_codes, data |-> built.out,
                           table |-> shaped.table]

ConvertToDataframe ==
    /\ results.fields # <<>>
    /\ ~conv.done
    /\ conv' = convert_to_dataframe(results, include_codes, reshape)
    /\ UNCHANGED <<results, include_codes, reshape, reqVars, loopVars>>

\* ---- the responses SpecConvert and SpecCodes draw
\* Item k of field f: the labels of different fields are different texts.
ItemLabel(f, k) == 10 * f + k

DigitChars == <<"1", "2", "3", "4", "5", "6", "7", "8", "9">>

\* The first uri of an item, by kind:
\*   good     "str:geo:E120000<f><k>"  a 9-character code after the last colon
\*   short    "str:AB1"                a 3-character trailing segment
\*   digits   "str:123456789"          9 characters, the first one a digit
\*   nocolon  "E12000001"              no colon at all
UriText(kind, f, k) ==
    CASE kind = "good" ->
            <<"s", "t", "r", ":", "g", "e", "o", ":",
              "E", "1", "2", "0", "0", "0", "0", DigitChars[f], DigitChars[k]>>
      [] kind = "short" -> <<"s", "t", "r", ":", "A", "B", "1">>
      [] kind = "digits" ->
            <<"s", "t", "r", ":", "1", "2", "3", "4", "5", "6", "7", "8", "9">>
      [] OTHER -> <<"E", "1", "2", "0", "0", "0", "0", "0", "1">>

\* "absent": the item has no "uris" key; "empty": its "uris" list is empty.
UriKinds == {"absent", "empty", "good", "short", "digits", "nocolon"}

MkItem(f, k, kind) ==
    [label |-> ItemLabel(f, k),
     has_uris |-> kind # "absent",
     uris |-> IF kind \in {"absent", "empty"} THEN <<>>
              ELSE <<UriText(kind, f, k)>>]

MeasureLabels == <<"M1", "M2", "M3", "M4">>
MeasureUris == <<"str:count:1", "str:count:2", "str:count:3", "str:count:4">>

\* orders[f]: the order of field f's items; kinds[f][i]: the uri kind of the
\* i-th item of field f; m measures whose cubes all have shape cubeShape and
\* hold different values.
MkResults(orders, kinds, m, cubeShape) ==
    [fields |-> [f \in 1..Len(orders) |->
        [label |-> NamePool[f],
         items |-> [i \in 1..Len(orders[f]) |->
                       MkItem(f, orders[f][i], kinds[f][i])]]],
     measures |-> [j \in 1..m |->
        [label |-> MeasureLabels[j], uri |-> MeasureUris[j]]],
     cubes |-> [u \in {MeasureUris[j] : j \in 1..m} |->
        [values |-> Nest(cubeShape,
            100 * (CHOOSE j \in 1..m : MeasureUris[j] = u))]]]

NoResults == [fields |-> <<>>, measures |-> <<>>, cubes |-> <<>>]

\* item orders of a field: ascending or descending label order
LabelOrders == UNION {{Iota(n), Rev(n)} : n \in 0..MaxItems}

\* The item orders of n fields: the two pivot axes (Field 0, Field 1) in
\* either order, the stacked fields in ascending order.
FieldOrders(n) ==
    {o \in SeqsOfLen(LabelOrders, n) :
        \A f \in 3..n : o[f] = Iota(Len(o[f]))}

\* The shape the fields give, that shape with one dimension one longer or
\* shorter, and that shape without its last dimension.
CubeShapes(counts) ==
    {counts}
    \cup {[counts EXCEPT ![d] = counts[d] + 1] : d \in 1..Len(counts)}
    \cup {[counts EXCEPT ![d] = counts[d] - 1] :
             d \in {e \in 1..Len(counts) : counts[e] > 0}}
    \cup (IF Len(counts) > 1 THEN {SubSeq(counts, 1, Len(counts) - 1)} ELSE {})

AllAbsent == [f \in 1..(MaxFields + 1) |-> [i \in 1..(MaxItems + 1) |-> "absent"]]

ConvertInputs ==
    /\ conv = NoConv
    /\ include_codes = FALSE
    /\ reshape \in BOOLEAN
    /\ \E n \in 1..MaxFields : \E m \in 1..MaxMeasures :
       \E orders \in FieldOrders(n) :
       \E cubeShape \in CubeShapes([f \in 1..n |-> Len(orders[f])]) :
          results = MkResults(orders, AllAbsent, m, cubeShape)

CodesInputs ==
    /\ conv = NoConv
    /\ include_codes = TRUE
    /\ reshape \in BOOLEAN
    /\ \E n \in 1..MaxFields :
       \E orders \in {o \in FieldOrders(n) : \A f \in 1..n : o[f] # <<>>} :
       \E base \in [1..n -> {"absent", "good"}] :
       \E c \in 0..n : \E free \in [1..MaxItems -> UriKinds] :
          results = MkResults(orders,
                        [f \in 1..n |-> [i \in 1..MaxItems |->
                            IF f = c THEN free[i] ELSE base[f]]],
                        1, [f \in 1..n |-> Len(orders[f])])

IdleConvert ==
    /\ results = NoResults
    /\ include_codes = FALSE
    /\ reshape = FALSE
    /\ conv = NoConv

\* ------------------------------------------------- idle parts of the state
IdleRequest ==
    /\ constructed = FALSE
    /\ caller = "none"
    /\ pc = "idle"
    /\ endpoint = "none"
    /\ retries = 0
    /\ statuses = <<>>
    /\ req = 0
    /\ reqResult = "none"
    /\ exc = "none"
    /\ decoded = FALSE
    /\ converted = FALSE
    /\ returned = FALSE

IdleLooper ==
    /\ call = "none"
    /\ field_names = <<>>
    /\ field_labels = <<>>
    /\ array = [shape |-> <<>>, values |-> NoArray]
    /\ yielded = NoYield

\* ====================================================== SpecRequest
NextRequest ==
    \/ Construct
    \/ FetchTable
    \/ CallRequest
    \/ RequestValueError
    \/ RequestAttempt
    \/ RequestLoopExit
    \/ RequestFinish
    \/ ConstructCheck
    \/ FetchCheck

\* A call that has started keeps executing until it returns or raises.
RequestStep ==
    \/ RequestValueError
    \/ RequestAttempt
    \/ RequestLoopExit
    \/ RequestFinish
    \/ ConstructCheck
    \/ FetchCheck

\* ====================================================== SpecLooper
NextLooper ==
    \/ CallFieldLooper
    \/ CallValueLooper

\* ====================================================== SpecConvert, SpecCodes
NextConvert == ConvertToDataframe

\* ====================================================== the specifications
InitRequest == IdleRequest /\ IdleLooper /\ IdleConvert

SpecRequest == InitRequest /\ [][NextRequest]_vars

SpecRequestFair == SpecRequest /\ WF_vars(RequestStep)

InitLooper == IdleRequest /\ LooperInputs /\ IdleConvert

SpecLooper == InitLooper /\ [][NextLooper]_vars

InitConvert == IdleRequest /\ IdleLooper /\ ConvertInputs

SpecConvert == InitConvert /\ [][NextConvert]_vars

InitCodes == IdleRequest /\ IdleLooper /\ CodesInputs

SpecCodes == InitCodes /\ [][NextConvert]_vars

\* ================================================================== claims
\* ---- helpers of the statements below
DistinctSeq(s) == \A i, j \in 1..Len(s) : i # j => s[i] # s[j]

Lens(ss) == [f \in 1..Len(ss) |-> Len(ss[f])]

\* a is a regular nested array of the given shape
RECURSIVE IsShaped(_, _)
IsShaped(a, shape) ==
    IF shape = <<>> THEN ~a.isList
    ELSE /\ a.isList
         /\ Len(a.items) = Head(shape)
         /\ \A i \in 1..Len(a.items) : IsShaped(a.items[i], Tail(shape))

\* the flat sequence s nested again by the shape
RECURSIVE Renest(_, _)
Renest(s, shape) ==
    IF shape = <<>> THEN Scalar(s[1])
    ELSE LET stride == Prod(Tail(shape))
         IN  List([i \in 1..Head(shape) |->
                 Renest(SubSeq(s, (i - 1) * stride + 1, i * stride), Tail(shape))])

All504(k) == \A i \in 1..k : statuses[i] = 504

InRequest == pc \in {"raise", "loop", "after"}

RequestOutcome ==
    LET n == Len(statuses)
        finished == reqResult # "none" /\ endpoint \in ENDPOINTS
    IN  /\ n <= MAX_RETRIES
        /\ retries <= MAX_RETRIES
        /\ pc = "loop" => retries = n /\ All504(n)
        /\ finished =>
              reqResult \in {"returned", "ServiceUnavailableError", "TimeoutError"}
        /\ reqResult = "returned" =>
              /\ n >= 1
              /\ req = statuses[n]
              /\ req \notin {503, 504}
              /\ All504(n - 1)
        /\ reqResult = "ServiceUnavailableError" =>
              /\ n >= 1
              /\ statuses[n] = 503
              /\ All504(n - 1)
        /\ finished => (reqResult = "TimeoutError" <=> (n = MAX_RETRIES /\ All504(n)))

\* C5: a call of request with a recognised endpoint makes at most MAX_RETRIES
\* HTTP attempts and then ends: it returns the response of the first attempt
\* whose status is neither 503 nor 504, or raises ServiceUnavailableError at the
\* first 503, or raises TimeoutError exactly when all MAX_RETRIES attempts
\* answered 504; a 504 response is never returned.
C5_RequestTerminates ==
    /\ []RequestOutcome
    /\ InRequest ~> ~InRequest

C5_Witness ==
    /\ reqResult = "TimeoutError"
    /\ Len(statuses) = MAX_RETRIES
    /\ pc = "done"

\* C9: fetch_table decodes the body and calls convert_to_dataframe only after
\* request("table") returned a response of status 200; on any other returned
\* status it raises RequestFailedError, and an exception of request
\* propagates; in both cases nothing is decoded and nothing is returned.
C9_ConvertOnlyAfter200 ==
    /\ (decoded \/ converted \/ returned) =>
          /\ caller = "fetch_table"
          /\ endpoint = "table"
          /\ reqResult = "returned"
          /\ req = 200
    /\ (caller = "fetch_table" /\ pc = "done" /\ reqResult = "returned" /\ req # 200) =>
          /\ exc = "RequestFailedError"
          /\ ~decoded /\ ~converted /\ ~returned
    /\ (caller = "fetch_table" /\ pc = "done" /\ reqResult # "returned") =>
          /\ reqResult \in {"ServiceUnavailableError", "TimeoutError"}
          /\ exc = reqResult
          /\ ~decoded /\ ~converted /\ ~returned

C9_Witness ==
    /\ caller = "fetch_table"
    /\ pc = "done"
    /\ exc = "RequestFailedError"
    /\ Len(statuses) > 1

FieldLooperDone == call = "field_looper" /\ yielded.done
PositionMatched == Len(field_names) = Len(field_labels)

\* the k-th (1-based) combination in row-major order, as a mapping
Combination(names, labels, k) ==
    [f \in 1..Len(names) |->
        Entry(names[f], labels[f][Digit(k - 1, f, Lens(labels))])]

LabelTuple(d) == [i \in 1..Len(d) |-> d[i].v]

\* C6 as stated: for any position-matched lists, repeated names and labels
\* included, field_looper yields the product of the counts many mappings, each
\* with exactly F keys in field order, pairwise distinct as label tuples, the
\* first field's label changing slowest.
C6_AsStated ==
    (FieldLooperDone /\ PositionMatched) =>
        LET out == yielded.out
            stride == Prod(Tail(Lens(field_labels)))
        IN  /\ yielded.exc = "none"
            /\ Len(out) = Prod(Lens(field_labels))
            /\ \A k \in 1..Len(out) :
                  /\ Keys(out[k]) = field_names
                  /\ out[k][1].v = field_labels[1][((k - 1) \div stride) + 1]
            /\ \A k1, k2 \in 1..Len(out) :
                  k1 # k2 => LabelTuple(out[k1]) # LabelTuple(out[k2])

\* C6 as amended: the count is the product for any position-matched lists;
\* when the field names are pairwise distinct the k-th mapping is the k-th
\* row-major combination (F keys in field order, first field slowest); when
\* moreover each field's labels are pairwise distinct, so are the mappings.
C6_FieldLooper ==
    (FieldLooperDone /\ PositionMatched) =>
        LET out == yielded.out
        IN  /\ yielded.exc = "none"
            /\ Len(out) = Prod(Lens(field_labels))
            /\ DistinctSeq(field_names) =>
                  \A k \in 1..Len(out) :
                      out[k] = Combination(field_names, field_labels, k)
            /\ (/\ DistinctSeq(field_names)
                /\ \A f \in 1..Len(field_labels) : DistinctSeq(field_labels[f])) =>
                  \A k1, k2 \in 1..Len(out) :
                      k1 # k2 => LabelTuple(out[k1]) # LabelTuple(out[k2])

C6_Witness ==
    /\ FieldLooperDone
    /\ Len(field_names) = MaxFields
    /\ DistinctSeq(field_names)
    /\ \A f \in 1..Len(field_labels) : field_labels[f] = Rev(MaxItems)
    /\ Len(yielded.out) = Prod(Lens(field_labels))

\* C7: for every regular nested array of shape n_0 x ... x n_{F-1}, every
\* n_i >= 0, filled in row-major order with 0..P-1, value_looper yields
\* 0, 1, .., P-1 in order without raising, and nesting its output again by
\* the shape gives the array back.
C7_AsStated ==
    (call = "value_looper" /\ yielded.done) =>
        /\ yielded.exc = "none"
        /\ yielded.out = [i \in 1..Prod(array.shape) |-> i - 1]
        /\ Renest(yielded.out, array.shape) = array.values

\* ---- convert_to_dataframe
ItemCounts == [f \in 1..Len(results.fields) |-> Len(results.fields[f].items)]

CubeOf(j) == results.cubes[results.measures[j].uri].values

\* every measure's cube has the shape the fields give
WellFormed == \A j \in 1..Len(results.measures) : IsShaped(CubeOf(j), ItemCounts)

\* the record of the k-th row-major combination for measure j: the labels
\* at that multi-index, then the measure's value at the same multi-index
ExpectedRecord(j, k) ==
    Append(Combination(FieldNames(results), FieldLabels(results), k),
           Entry(results.measures[j].label,
                 At(CubeOf(j), MultiIndex(k - 1, ItemCounts)).val))

\* C1: with reshape=False, one measure and a well-formed cube over F >= 1
\* fields of at least one item each, exactly P records are produced, and the
\* k-th pairs the k-th row-major label combination with the cube value at the
\* same multi-index.
C1_RowMajorRecords ==
    (/\ conv.done
     /\ ~reshape
     /\ Len(results.measures) = 1
     /\ \A f \in 1..Len(ItemCounts) : ItemCounts[f] >= 1
     /\ WellFormed) =>
        LET P == Prod(ItemCounts)
        IN  /\ conv.exc = "none"
            /\ conv.table.kind = "flat"
            /\ conv.table.columns =
                  Append(FieldNames(results), results.measures[1].label)
            /\ Len(conv.data) = P
            /\ Len(conv.table.cells) = P
            /\ \A k \in 1..P :
                  /\ conv.data[k] = ExpectedRecord(1, k)
                  /\ conv.table.cells[k] =
                        [c \in 1..(Len(ItemCounts) + 1) |->
                            Num(ExpectedRecord(1, k)[c].v)]

C1_Witness ==
    /\ conv.done
    /\ ~reshape
    /\ Len(results.measures) = 1
    /\ Len(results.fields) = MaxFields
    /\ \A f \in 1..Len(ItemCounts) : ItemCounts[f] = MaxItems
    /\ WellFormed
    /\ Len(conv.data) = Prod(ItemCounts)

\* some measure's cube yields a number of values other than the number of
\* label combinations
CountMismatch ==
    \E j \in 1..Len(results.measures) :
        Len(value_looper(CubeOf(j)).out) #
            Len(field_looper(FieldNames(results), FieldLabels(results)).out)

\* C2: whenever the number of label combinations differs from the number of
\* values of a measure's cube, the call ends in an error and returns no table
\* (stated here for responses whose fields all have items).
C2_AsStated ==
    (/\ conv.done
     /\ \A f \in 1..Len(ItemCounts) : ItemCounts[f] >= 1
     /\ CountMismatch) =>
        /\ conv.exc # "none"
        /\ conv.table = NoTable

\* C3: a two-field response reshaped with reshape=True has its columns in the
\* order of Field 1's items and its rows in the order of Field 0's items.
C3_AsStated ==
    (/\ conv.done
     /\ reshape
     /\ Len(results.fields) = 2
     /\ Len(results.measures) = 1
     /\ \A f \in 1..Len(ItemCounts) : ItemCounts[f] >= 1
     /\ WellFormed) =>
        /\ conv.exc = "none"
        /\ conv.table.columns = FieldLabels(results)[2]
        /\ [r \in 1..Len(conv.table.index) |-> conv.table.index[r][1].label]
              = FieldLabels(results)[1]

\* the item's first uri has a last colon followed by 9 characters, the first
\* of them a letter
Qualifies(item) ==
    /\ item.has_uris
    /\ Len(item.uris) >= 1
    /\ LastColon(item.uris[1]) > 0
    /\ Len(item.uris[1]) - LastColon(item.uris[1]) = 9
    /\ item.uris[1][LastColon(item.uris[1]) + 1] \in Alpha

HasCode(field_codes, field_label, item_label) ==
    /\ HasKey(field_codes, field_label)
    /\ HasKey(Get(field_codes, field_label), item_label)

\* every item that has a "uris" key has a first uri
EveryUrisListFilled ==
    \A f \in 1..Len(results.fields) :
    \A i \in 1..Len(results.fields[f].items) :
        results.fields[f].items[i].has_uris =>
            results.fields[f].items[i].uris # <<>>

\* C4: with include_codes=True code extraction never raises (stated here for
\* items whose "uris" list, when present, is not empty); an item label is in
\* its field's lookup exactly when its uri's part after the final colon has
\* 9 characters and starts with a letter, and it maps to that part.
C4_AsStated ==
    (conv.done /\ include_codes /\ EveryUrisListFilled) =>
        /\ conv.stage # "codes"
        /\ \A f \in 1..Len(results.fields) :
           \A i \in 1..Len(results.fields[f].items) :
              LET field == results.fields[f]
                  item == field.items[i]
              IN  /\ HasCode(conv.field_codes, field.label, item.label)
                        <=> Qualifies(item)
                  /\ Qualifies(item) =>
                        Get(Get(conv.field_codes, field.label), item.label) =
                            SubSeq(item.uris[1], LastColon(item.uris[1]) + 1,
                                   Len(item.uris[1]))

\* C8: with reshape=True and include_codes=True, for every field with an entry
\* in the CodeLookup, whatever its position, the call completes and the table
\* has a "<field> code" index level holding, in every row, the code of that
\* row's own label for the field, or no code when that label has none.
C8_AsStated ==
    (conv.done /\ reshape /\ include_codes /\ conv.stage # "codes") =>
        \A e \in 1..Len(conv.field_codes) :
            LET name == conv.field_codes[e].k
                lookup == conv.field_codes[e].v
                names == conv.table.index_names
            IN  /\ conv.exc = "none"
                /\ \E p, q \in 1..Len(names) :
                      /\ names[p] = Level(name, TRUE)
                      /\ names[q] = Level(name, FALSE)
                      /\ \A r \in 1..Len(conv.table.index) :
                            conv.table.index[r][p] =
                                LookupCell(lookup, conv.table.index[r][q])

\* C10: for M measures and P label combinations (cubes well-formed) the list
\* of records holds M*P records, measure by measure in declared order: records
\* (j-1)*P+1 .. j*P repeat the row-major combinations and carry, besides the
\* field labels, a value under measure j's label only.
C10_MeasureMajor ==
    (conv.done /\ WellFormed) =>
        LET P == Prod(ItemCounts)
            M == Len(results.measures)
        IN  /\ conv.stage \in {"returned", "reshape"}
            /\ Len(conv.data) = M * P
            /\ \A j \in 1..M : \A k \in 1..P :
                  conv.data[(j - 1) * P + k] = ExpectedRecord(j, k)

C10_Witness ==
    /\ conv.done
    /\ WellFormed
    /\ Len(results.measures) = MaxMeasures
    /\ Len(results.fields) > 1
    /\ \A f \in 1..Len(ItemCounts) : ItemCounts[f] = MaxItems
    /\ Len(conv.data) = MaxMeasures * Prod(ItemCounts)

====
